---------------------------- MODULE Spec2Model ----------------------------
(***************************************************************************)
(* Model of the multer-s3 storage engine (src/index.js): construction of   *)
(* the adapter, attribute resolution (collect), content-type detection     *)
(* (autoContentType), the upload orchestration of _handleFile and the      *)
(* removal operation _removeFile.                                          *)
(***************************************************************************)
EXTENDS Naturals, Sequences, FiniteSets, TLC

(***************************************************************************)
(* JavaScript values.  Every value is a record [t, v]: t is what typeof    *)
(* answers for it, v tells values of one type apart.                       *)
(***************************************************************************)
Undef == [t |-> "undefined", v |-> "undefined"]
NullV == [t |-> "object", v |-> "null"]
Str(s) == [t |-> "string", v |-> s]
Fn(name) == [t |-> "function", v |-> name]
Obj(name) == [t |-> "object", v |-> name]
NumV(n) == [t |-> "number", v |-> n]
BoolV(b) == [t |-> "boolean", v |-> b]

\* JavaScript truthiness of a value (ToBoolean).
Truthy(x) ==
  ~(x \in {Undef, NullV, Str(""), BoolV("false"), NumV("0"), NumV("NaN")})

(***************************************************************************)
(* Strategies: what the adapter stores in getBucket, getKey, ...           *)
(***************************************************************************)
\* staticValue(value): a strategy that calls back cb(null, value) at once.
staticValue(value) == [kind |-> "static", value |-> value]

\* A default access-control setting that makes objects public.
defaultAcl_PublicRead == staticValue(Str("public-read"))

defaultAcl == staticValue(Str("private"))
defaultContentType == staticValue(Str("application/octet-stream"))
defaultMetadata == staticValue(NullV)
defaultCacheControl == staticValue(NullV)
defaultContentDisposition == staticValue(NullV)
defaultStorageClass == staticValue(Str("STANDARD"))
defaultSSE == staticValue(NullV)
defaultSSEKMS == staticValue(NullV)

\* defaultKey: randomBytes(16, ...) answers later, with an error or 32 hex digits.
defaultKey == [kind |-> "defaultKey", value |-> Undef]

\* module.exports.AUTO_CONTENT_TYPE: the function autoContentType itself.
AUTO_CONTENT_TYPE == Fn("autoContentType")

\* A function given as an option is stored as it is.
UserStrategy(f) ==
  [kind |-> IF f = AUTO_CONTENT_TYPE THEN "auto" ELSE "user", value |-> f]

NoStrategy == [kind |-> "none", value |-> Undef]

(***************************************************************************)
(* The constructor S3Storage(opts).                                        *)
(***************************************************************************)
OptionNames ==
  <<"s3", "bucket", "key", "acl", "contentType", "metadata", "cacheControl",
    "contentDisposition", "storageClass", "serverSideEncryption",
    "sseKmsKeyId", "throwMimeTypeConflictErrors", "transforms">>

\* The typeof values each validated option's switch accepts.
AcceptedTypes(name) ==
  CASE name = "s3" -> {"object"}
    [] name = "bucket" -> {"function", "string"}
    [] name \in {"key", "contentType", "metadata"} -> {"function", "undefined"}
    [] name \in {"acl", "cacheControl", "contentDisposition", "storageClass",
                 "serverSideEncryption", "sseKmsKeyId"} ->
         {"function", "string", "undefined"}
    [] OTHER -> {"object", "function", "string", "undefined", "number", "boolean"}

\* What the switch of option `name` throws for the value x ("none": nothing).
OptionThrows(name, x) ==
  IF x.t \in AcceptedTypes(name) THEN "none"
  ELSE IF name = "bucket" /\ x.t = "undefined" THEN "Error"
  ELSE "TypeError"

\* The strategy the switch of option `name` stores for an accepted value x.
OptionStrategy(name, x) ==
  CASE x.t = "function" -> UserStrategy(x)
    [] x.t = "string" -> staticValue(x)
    [] OTHER ->
         CASE name = "key" -> defaultKey
           [] name = "acl" -> defaultAcl
           [] name = "contentType" -> defaultContentType
           [] name = "metadata" -> defaultMetadata
           [] name = "cacheControl" -> defaultCacheControl
           [] name = "contentDisposition" -> defaultContentDisposition
           [] name = "storageClass" -> defaultStorageClass
           [] name = "serverSideEncryption" -> defaultSSE
           [] name = "sseKmsKeyId" -> defaultSSEKMS
           [] OTHER -> NoStrategy

\* The first option, in the constructor's order, whose switch throws (0: none).
FirstThrowing(opts) ==
  LET bad == {i \in 1..Len(OptionNames) :
                OptionThrows(OptionNames[i], opts[OptionNames[i]]) # "none"}
  IN IF bad = {} THEN 0 ELSE CHOOSE i \in bad : \A j \in bad : i <= j

\* new S3Storage(opts): the exception thrown, or the adapter's fields.
S3Storage(opts) ==
  LET i == FirstThrowing(opts)
      failed == i # 0
      get(name) == IF failed THEN NoStrategy ELSE OptionStrategy(name, opts[name])
  IN [thrown |-> IF failed THEN OptionThrows(OptionNames[i], opts[OptionNames[i]])
                 ELSE "none",
      thrownBy |-> IF failed THEN OptionNames[i] ELSE "none",
      s3 |-> IF failed THEN Undef ELSE opts.s3,
      getBucket |-> get("bucket"),
      getKey |-> get("key"),
      getAcl |-> get("acl"),
      getContentType |-> get("contentType"),
      getMetadata |-> get("metadata"),
      getCacheControl |-> get("cacheControl"),
      getContentDisposition |-> get("contentDisposition"),
      getStorageClass |-> get("storageClass"),
      getSSE |-> get("serverSideEncryption"),
      getSSEKMS |-> get("sseKmsKeyId"),
      throwMimeTypeConflictErrors |->
        IF failed THEN Undef ELSE opts.throwMimeTypeConflictErrors,
      transforms |-> IF failed THEN Undef ELSE opts.transforms]


(***************************************************************************)
(* Bounds of the model.                                                    *)
(***************************************************************************)
\* Options among the nine attribute options that are given as functions.
MaxFn == 1
\* Chunks the file's stream emits at most.
MaxChunks == 2
\* The largest total a progress notification reports.
MaxTotal == 2
\* Calls of _removeFile.
MaxRemoves == 1

(***************************************************************************)
(* Errors and callback invocations.  An error-first callback receives      *)
(* (err, result): err is null or an Error with a message (the pieces of    *)
(* its template, in order).                                                 *)
(***************************************************************************)
NullErr == [t |-> "null", message |-> <<>>]
Error(message) == [t |-> "Error", message |-> message]
NoResult == [size |-> 0, absent |-> TRUE]

\* The error a strategy, the storage collaborator or randomBytes reports.
FailureOf(who) == Error(<<who, "failed">>)

(***************************************************************************)
(* The options the adapter is constructed with.                            *)
(***************************************************************************)
AttrNames ==
  <<"bucket", "key", "acl", "metadata", "cacheControl", "contentDisposition",
    "storageClass", "serverSideEncryption", "sseKmsKeyId">>
NumAttrs == 9
Attrs == 1..NumAttrs

\* What test/basic.js passes, plus a storage client.
BaseOpts ==
  [s3 |-> Obj("s3"), bucket |-> Str("test"), key |-> Undef, acl |-> Undef,
   contentType |-> Undef, metadata |-> Undef, cacheControl |-> Undef,
   contentDisposition |-> Undef, storageClass |-> Undef,
   serverSideEncryption |-> Undef, sseKmsKeyId |-> Undef,
   throwMimeTypeConflictErrors |-> Undef, transforms |-> Undef]

AttrNameSet == {AttrNames[i] : i \in Attrs}

\* Options of supported types: up to MaxFn attribute options are functions.
SupportedOpts ==
  {[o \in DOMAIN BaseOpts |->
      IF o \in F THEN Fn(o)
      ELSE IF o = "contentType" THEN c
      ELSE IF o = "throwMimeTypeConflictErrors" THEN m
      ELSE IF o = "transforms" THEN x
      ELSE BaseOpts[o]] :
    F \in {G \in SUBSET AttrNameSet : Cardinality(G) <= MaxFn},
    c \in {Undef, AUTO_CONTENT_TYPE, Fn("contentType")},
    m \in {Undef, BoolV("true")},
    x \in {Undef, Fn("factory"), Obj("{image}"), Obj("{other}")}}

\* Values of every typeof, to give an option a value of the wrong type.
SampleValues ==
  {Str("string"), NumV("1337"), BoolV("true"), Fn("f"), Obj("{}")}

\* The types an option supports: those its switch accepts and, for the two
\* options the constructor copies unchecked, those _handleFile can use (a flag;
\* no transform, a factory or an object of factories).
SupportedTypes(name) ==
  CASE name = "throwMimeTypeConflictErrors" -> {"boolean", "undefined"}
    [] name = "transforms" -> {"function", "object", "undefined"}
    [] OTHER -> AcceptedTypes(name)

\* Whether x is a value of a type option `name` supports.
SupportedValue(name, x) == x.t \in SupportedTypes(name)

\* The base options with one option given a value of an unsupported type.
WrongTypedOpts ==
  {[BaseOpts EXCEPT ![p[1]] = p[2]] :
     p \in {q \in (DOMAIN BaseOpts) \X SampleValues :
              ~SupportedValue(q[1], q[2])}}

\* The base options with a required option (the client, the bucket) omitted.
MissingOpts ==
  {[BaseOpts EXCEPT !.bucket = Undef], [BaseOpts EXCEPT !.s3 = Undef]}

CtorOpts == SupportedOpts \cup WrongTypedOpts \cup MissingOpts

\* The option names of opts whose value has an unsupported type.
WrongTyped(opts) ==
  {n \in DOMAIN opts : opts[n] # Undef /\ ~SupportedValue(n, opts[n])}

(***************************************************************************)
(* The file descriptor multer passes to _handleFile.                       *)
(***************************************************************************)
Files ==
  {[fieldname |-> "image", originalname |-> "upload.bin", mimetype |-> m] :
     m \in {"image/png", "application/pdf"}}

NoFile == [fieldname |-> "", originalname |-> "", mimetype |-> ""]

(***************************************************************************)
(* collect: the nine strategies run under run-parallel, then the           *)
(* content-type strategy.                                                  *)
(***************************************************************************)
\* The strategy collect binds as task i of parallel([...]).
Getter(st, i) ==
  CASE i = 1 -> st.getBucket
    [] i = 2 -> st.getKey
    [] i = 3 -> st.getAcl
    [] i = 4 -> st.getMetadata
    [] i = 5 -> st.getCacheControl
    [] i = 6 -> st.getContentDisposition
    [] i = 7 -> st.getStorageClass
    [] i = 8 -> st.getSSE
    [] i = 9 -> st.getSSEKMS

\* One answer of a strategy: cb(err) or cb(null, value).
Answer(err, value) == [err |-> err, value |-> value]

\* The values a user's function may answer for an attribute.
UserValues(name) ==
  CASE name = "contentDisposition" -> {Str("attachment"), Str("")}
    [] name = "metadata" -> {Obj("{user: metadata}")}
    [] name = "key" -> {Str("user-key")}
    [] name = "contentType" -> {Str("image/png"), Str("application/octet-stream")}
    [] OTHER -> {Str("user-value")}

\* The answers strategy s of attribute `name` may give when it is invoked.
Answers(s, name) ==
  CASE s.kind = "static" -> {Answer(NullErr, s.value)}
    [] s.kind = "defaultKey" ->
         {Answer(FailureOf("randomBytes"), Undef), Answer(NullErr, Str("0f0e0d0c"))}
    [] OTHER ->
         {Answer(FailureOf(name), Undef)} \cup
         {Answer(NullErr, x) : x \in UserValues(name)}

\* The attribute set collect hands to its callback.
Collected(values, contentType, replacementStream) ==
  [bucket |-> values[1],
   key |-> values[2],
   acl |-> values[3],
   metadata |-> values[4],
   cacheControl |-> values[5],
   contentDisposition |-> values[6],
   storageClass |-> values[7],
   contentType |-> contentType,
   replacementStream |-> replacementStream,
   serverSideEncryption |-> values[8],
   sseKmsKeyId |-> values[9]]

(***************************************************************************)
(* autoContentType: the classification of the first chunk.                 *)
(***************************************************************************)
\* What the head of a file may be: a PNG signature, an XML declaration
\* followed by an SVG document, an SVG document, plain text.
ChunkKinds == {"png", "xml+svg", "svg", "text"}

\* fileTypeFromBuffer(chunk): the type the binary signature gives, if any.
fileTypeFromBuffer(chunk) ==
  CASE chunk.kind = "png" -> Str("image/png")
    [] chunk.kind = "xml+svg" -> Str("application/xml")
    [] OTHER -> Undef

\* isSvg(chunk).
isSvg(chunk) == chunk.kind \in {"xml+svg", "svg"}

\* A classification that asks isSvg before the binary signature.
DetectMime_SvgFirst(firstChunk) ==
  LET type == fileTypeFromBuffer(firstChunk)
  IN IF isSvg(firstChunk) THEN Str("image/svg+xml")
     ELSE IF Truthy(type) THEN type
     ELSE Str("application/octet-stream")

\* The mime autoContentType answers for the first chunk.
DetectMime(firstChunk) ==
  LET type == fileTypeFromBuffer(firstChunk)
  IN IF Truthy(type) THEN type
     ELSE IF isSvg(firstChunk) THEN Str("image/svg+xml")
     ELSE Str("application/octet-stream")

(***************************************************************************)
(* The callback _handleFile gives collect.                                 *)
(***************************************************************************)
\* transforms[fieldname]: the factory a per-field value holds for the field.
FieldFactory(transforms, fieldname) ==
  IF transforms = Obj("{image}") /\ fieldname = "image" THEN Fn("factory")
  ELSE IF transforms = Obj("{other}") /\ fieldname = "other" THEN Fn("factory")
  ELSE Undef

\* Line 168: "none" (no transform), "made" (a factory was called) or
\* "TypeError" (what was called is no function).
ResolveTransform(transforms, fieldname) ==
  IF ~Truthy(transforms) THEN "none"
  ELSE IF transforms.t = "function" THEN "made"
  ELSE IF FieldFactory(transforms, fieldname).t = "function" THEN "made"
  ELSE "TypeError"

\* A request that carries ContentDisposition whatever its value.
Params_AlwaysDisposition(o, body) ==
  [Bucket |-> o.bucket,
   Key |-> o.key,
   ACL |-> o.acl,
   CacheControl |-> o.cacheControl,
   ContentType |-> o.contentType,
   Metadata |-> o.metadata,
   StorageClass |-> o.storageClass,
   ServerSideEncryption |-> o.serverSideEncryption,
   SSEKMSKeyId |-> o.sseKmsKeyId,
   Body |-> body,
   ContentDisposition |-> o.contentDisposition]

\* The upload request of lines 175 to 190.
Params(o, body) ==
  LET always ==
        [Bucket |-> o.bucket,
         Key |-> o.key,
         ACL |-> o.acl,
         CacheControl |-> o.cacheControl,
         ContentType |-> o.contentType,
         Metadata |-> o.metadata,
         StorageClass |-> o.storageClass,
         ServerSideEncryption |-> o.serverSideEncryption,
         SSEKMSKeyId |-> o.sseKmsKeyId,
         Body |-> body]
  IN IF Truthy(o.contentDisposition)
       THEN always @@ ("ContentDisposition" :> o.contentDisposition)
       ELSE always

\* The error of line 193.
MimeTypeMismatch(contentType, mimetype, originalname) ==
  Error(<<"MIMETYPE_MISMATCH: Actual content-type \"", contentType.v,
          "\" does not match the mime-type \"", mimetype,
          "\" assumed by the file extension for file \"", originalname, "\"">>)

\* A test that compares the types with === where line 192 has !==.
Mismatch_Inverted(st, file, o) ==
  /\ Truthy(st.throwMimeTypeConflictErrors)
  /\ o.contentType # Str("application/octet-stream")
  /\ Str(file.mimetype) = o.contentType

\* The test of line 192.
Mismatch(st, file, o) ==
  /\ Truthy(st.throwMimeTypeConflictErrors)
  /\ o.contentType # Str("application/octet-stream")
  /\ Str(file.mimetype) # o.contentType

\* A result that takes the bucket for the key and the ETag for the location.
Result_Swapped(currentSize, o, data) ==
  [size |-> currentSize,
   bucket |-> o.key,
   key |-> o.bucket,
   acl |-> o.acl,
   contentType |-> o.contentType,
   contentDisposition |-> o.contentDisposition,
   storageClass |-> o.storageClass,
   serverSideEncryption |-> o.serverSideEncryption,
   metadata |-> o.metadata,
   location |-> data.ETag,
   etag |-> data.Location,
   versionId |-> data.VersionId]

\* The result of lines 205 to 218.
Result(currentSize, o, data) ==
  [size |-> currentSize,
   bucket |-> o.bucket,
   key |-> o.key,
   acl |-> o.acl,
   contentType |-> o.contentType,
   contentDisposition |-> o.contentDisposition,
   storageClass |-> o.storageClass,
   serverSideEncryption |-> o.serverSideEncryption,
   metadata |-> o.metadata,
   location |-> data.Location,
   etag |-> data.ETag,
   versionId |-> data.VersionId]

\* A source that is file.stream whatever the content-type strategy returned.
EffectiveSource_Original(o) == Obj("file.stream")

\* The stream lines 170 to 173 take as the source of the body.
EffectiveSource(o) ==
  IF Truthy(o.replacementStream) THEN o.replacementStream ELSE Obj("file.stream")

\* A callback that tests the types before it makes and pipes the transform.
Handled_ChecksFirst(st, file, err, o) ==
  LET tr == ResolveTransform(st.transforms, file.fieldname)
      source == EffectiveSource(o)
      body == IF tr = "made" THEN Obj("transform") ELSE source
      quiet == [ran |-> TRUE, opts |-> o, cb |-> <<>>, thrown |-> <<>>, made |-> 0,
                source |-> Undef, uploads |-> <<>>, fileDest |-> "none"]
      piped == [quiet EXCEPT !.made = IF tr = "made" THEN 1 ELSE 0,
                             !.source = IF tr = "made" THEN source ELSE Undef,
                             !.fileDest =
                               IF tr = "made" /\ source = Obj("file.stream")
                                 THEN "transform" ELSE "none"]
  IN IF err # NullErr
       THEN [quiet EXCEPT !.opts = Undef,
                          !.cb = <<[err |-> err, result |-> NoResult]>>]
     ELSE IF Mismatch(st, file, o)
       THEN [quiet EXCEPT !.cb =
               <<[err |-> MimeTypeMismatch(o.contentType, file.mimetype,
                                             file.originalname),
                  result |-> NoResult]>>]
     ELSE IF tr = "TypeError"
       THEN [quiet EXCEPT !.thrown = <<"TypeError">>]
     ELSE [piped EXCEPT !.uploads = <<Params(o, body)>>,
                        !.fileDest = IF body = Obj("file.stream") THEN "body"
                                     ELSE piped.fileDest]

\* What one run of the callback of line 163 does, for collect's (err, o):
\*   cb        the invocations of _handleFile's callback it makes,
\*   thrown    the exception that escapes it,
\*   made      the transform instances it creates, source: what it pipes
\*             into the transform,
\*   uploads   the requests it passes to s3.upload (and sends),
\*   fileDest  what it makes file.stream flow into ("none": nothing).
Handled(st, file, err, o) ==
  LET tr == ResolveTransform(st.transforms, file.fieldname)
      source == EffectiveSource(o)
      body == IF tr = "made" THEN Obj("transform") ELSE source
      quiet == [ran |-> TRUE, opts |-> o, cb |-> <<>>, thrown |-> <<>>, made |-> 0,
                source |-> Undef, uploads |-> <<>>, fileDest |-> "none"]
      piped == [quiet EXCEPT !.made = IF tr = "made" THEN 1 ELSE 0,
                             !.source = IF tr = "made" THEN source ELSE Undef,
                             !.fileDest =
                               IF tr = "made" /\ source = Obj("file.stream")
                                 THEN "transform" ELSE "none"]
  IN IF err # NullErr
       THEN [quiet EXCEPT !.opts = Undef,
                          !.cb = <<[err |-> err, result |-> NoResult]>>]
     ELSE IF tr = "TypeError"
       THEN [quiet EXCEPT !.thrown = <<"TypeError">>]
     ELSE IF Mismatch(st, file, o)
       THEN [piped EXCEPT !.cb =
               <<[err |-> MimeTypeMismatch(o.contentType, file.mimetype,
                                             file.originalname),
                  result |-> NoResult]>>]
     ELSE [piped EXCEPT !.uploads = <<Params(o, body)>>,
                        !.fileDest = IF body = Obj("file.stream") THEN "body"
                                     ELSE piped.fileDest]

\* Nothing of the callback ran.
NotHandled ==
  [ran |-> FALSE, opts |-> Undef, cb |-> <<>>, thrown |-> <<>>, made |-> 0,
   source |-> Undef, uploads |-> <<>>, fileDest |-> "none"]

(***************************************************************************)
(* The state.                                                              *)
(***************************************************************************)
VARIABLES
  options,         \* the options the constructor was called with
  storage,         \* the adapter
  file,            \* the file of the _handleFile call (NoFile: not called)
  task,            \* run-parallel: each task "idle", "pending" or "done"
  values,          \* run-parallel: results
  pending,         \* run-parallel: pending
  parCb,           \* run-parallel: cb is not null
  ct,              \* the content-type strategy: "idle", "waiting" (for the
                   \* first chunk), "classifying", "pending", "done"
  stream,          \* file.stream
  firstChunk,      \* the chunk autoContentType's listener received
  out,             \* autoContentType's outStream (endedBy: what ended it)
  resolved,        \* opts of the callback of line 163
  cbCalls,         \* the invocations of _handleFile's cb
  thrown,          \* exceptions that escaped a callback
  transformCalls,  \* transform factories called
  transformSource, \* the stream piped into the transform
  uploadCalls,     \* the requests passed to s3.upload
  upload,          \* the managed upload: "none", "sent", "done"
  currentSize,     \* currentSize of line 166
  sendReplies,     \* what the storage collaborator passed to send's callback
  lastTotal,       \* the last progress notification that reported a total
  removed,         \* the files _removeFile was called with
  deleteCalls,     \* the requests passed to s3.deleteObject
  deleteReplies,   \* what the storage collaborator answered them
  removeCbs,       \* the invocations of _removeFile's cb
  other            \* another _handleFile call in flight on the same adapter

configVars == <<options, storage>>
collectVars == <<file, task, values, pending, parCb, ct>>
streamVars == <<stream, firstChunk, out>>
handlerVars ==
  <<resolved, cbCalls, thrown, transformCalls, transformSource, uploadCalls,
    upload, currentSize, sendReplies, lastTotal>>
removeVars == <<removed, deleteCalls, deleteReplies, removeCbs>>
otherVars == <<other>>
vars ==
  <<configVars, collectVars, streamVars, handlerVars, removeVars, otherVars>>

NotBuilt == [S3Storage(BaseOpts) EXCEPT !.thrown = "not constructed"]
NoChunk == [n |-> 0, kind |-> "none"]

\* A _handleFile call that was not made: its file, run-parallel's state, the
\* content-type strategy's, and what the callback of line 163 holds and did.
NoCall ==
  [file |-> NoFile,
   task |-> [i \in Attrs |-> "idle"],
   values |-> [i \in Attrs |-> Undef],
   pending |-> 0,
   parCb |-> FALSE,
   ct |-> "idle",
   resolved |-> Undef,
   cbCalls |-> <<>>,
   thrown |-> <<>>,
   uploadCalls |-> <<>>,
   upload |-> "none",
   currentSize |-> 0,
   sendReplies |-> <<>>]

Init ==
  /\ options = BaseOpts
  /\ storage = NotBuilt
  /\ file = NoFile
  /\ task = [i \in Attrs |-> "idle"]
  /\ values = [i \in Attrs |-> Undef]
  /\ pending = 0
  /\ parCb = FALSE
  /\ ct = "idle"
  /\ stream = [pos |-> 0, state |-> "open", flowing |-> FALSE, dest |-> "none"]
  /\ firstChunk = NoChunk
  /\ out = [made |-> FALSE, written |-> <<>>, ended |-> FALSE, endedBy |-> "none"]
  /\ resolved = Undef
  /\ cbCalls = <<>>
  /\ thrown = <<>>
  /\ transformCalls = 0
  /\ transformSource = Undef
  /\ uploadCalls = <<>>
  /\ upload = "none"
  /\ currentSize = 0
  /\ sendReplies = <<>>
  /\ lastTotal = [has |-> FALSE, total |-> 0]
  /\ removed = <<>>
  /\ deleteCalls = <<>>
  /\ deleteReplies = <<>>
  /\ removeCbs = <<>>
  /\ other = NoCall

(***************************************************************************)
(* The actions.                                                            *)
(***************************************************************************)
\* module.exports(opts): new S3Storage(opts), with opts drawn from `from`.
ConstructFrom(from) ==
  /\ storage = NotBuilt
  /\ \E o \in from :
       /\ options' = o
       /\ storage' = S3Storage(o)
  /\ UNCHANGED <<collectVars, streamVars, handlerVars, removeVars, otherVars>>

Construct == ConstructFrom(CtorOpts)

\* The state changes of one run h of the callback of line 163, file.stream
\* being strm when it starts.
Deliver(h, strm) ==
  /\ resolved' = IF h.ran THEN h.opts ELSE resolved
  /\ cbCalls' = cbCalls \o h.cb
  /\ thrown' = thrown \o h.thrown
  /\ transformCalls' = transformCalls + h.made
  /\ transformSource' = IF h.made > 0 THEN h.source ELSE transformSource
  /\ uploadCalls' = uploadCalls \o h.uploads
  /\ upload' = IF h.uploads # <<>> THEN "sent" ELSE upload
  /\ currentSize' = IF h.ran /\ h.opts # Undef THEN 0 ELSE currentSize
  /\ sendReplies' = sendReplies
  /\ lastTotal' = lastTotal
  /\ stream' = IF h.fileDest # "none"
                 THEN [strm EXCEPT !.flowing = TRUE, !.dest = h.fileDest]
                 ELSE strm

\* _handleFile(req, f, cb): collect starts the nine tasks.  A static strategy
\* answers at once; a function and defaultKey answer in a later step.  getKey
\* is never static, so pending stays positive here.
HandleFile ==
  /\ storage.thrown = "none"
  /\ file = NoFile
  /\ \E f \in Files : file' = f
  /\ LET sync == {i \in Attrs : Getter(storage, i).kind = "static"}
     IN /\ task' = [i \in Attrs |-> IF i \in sync THEN "done" ELSE "pending"]
        /\ values' = [i \in Attrs |->
                        IF i \in sync THEN Getter(storage, i).value ELSE Undef]
        /\ pending' = NumAttrs - Cardinality(sync)
  /\ parCb' = TRUE
  /\ UNCHANGED <<ct, configVars, streamVars, handlerVars, removeVars, otherVars>>

\* Line 65: storage.getContentType(req, file, ...), the nine values being vals.
\* The default strategy answers at once and the callback of line 163 runs; an
\* exception escaping it leaves run-parallel's cb set (cb = null is not reached).
GetContentType(vals) ==
  LET s == storage.getContentType
      h == Handled(storage, file, NullErr, Collected(vals, s.value, Undef))
  IN CASE s.kind = "static" ->
            /\ ct' = "done"
            /\ parCb' = (h.thrown # <<>>)
            /\ Deliver(h, stream)
            /\ UNCHANGED <<firstChunk, out>>
       [] s.kind = "auto" ->
            /\ ct' = "waiting"
            /\ parCb' = FALSE
            /\ Deliver(NotHandled,
                       [stream EXCEPT !.flowing = TRUE, !.dest = "detector"])
            /\ UNCHANGED <<firstChunk, out>>
       [] OTHER ->
            /\ ct' = "pending"
            /\ parCb' = FALSE
            /\ Deliver(NotHandled, stream)
            /\ UNCHANGED <<firstChunk, out>>

\* A join that does not drop its callback after the first call.
ParallelEnds_KeepsCb(left, failed, cbSet) == left = 0 \/ failed

\* A join that reports only once every task has answered.
ParallelEnds_WaitsForAll(left, failed, cbSet) == left = 0 /\ cbSet

\* A join that reports at the first answer, whatever is still pending.
ParallelEnds_AtFirstAnswer(left, failed, cbSet) == cbSet

\* run-parallel: each() calls done(err) when no task is left or the task
\* failed, and done's end() calls cb only while cb is not null.
ParallelEnds(left, failed, cbSet) == (left = 0 \/ failed) /\ cbSet

\* Task i answers a: run-parallel's each(i, err, result).
TaskAnswers(i, a) ==
  LET failed == a.err # NullErr
      left == pending - 1
      vals == [values EXCEPT ![i] = a.value]
  IN /\ task' = [task EXCEPT ![i] = "done"]
     /\ values' = vals
     /\ pending' = left
     /\ IF ParallelEnds(left, failed, parCb)
          THEN IF failed
                 THEN /\ parCb' = FALSE
                      /\ Deliver(Handled(storage, file, a.err, Undef), stream)
                      /\ UNCHANGED <<ct, firstChunk, out>>
                 ELSE GetContentType(vals)
          ELSE /\ Deliver(NotHandled, stream)
               /\ UNCHANGED <<parCb, ct, firstChunk, out>>

TaskDone ==
  /\ \E i \in Attrs :
       /\ task[i] = "pending"
       /\ \E a \in Answers(Getter(storage, i), AttrNames[i]) : TaskAnswers(i, a)
  /\ UNCHANGED <<file, configVars, removeVars, otherVars>>

\* A content-type function of the user answers.
ContentTypeDone ==
  /\ ct = "pending"
  /\ ct' = "done"
  /\ \E a \in Answers(storage.getContentType, "contentType") :
       Deliver(Handled(storage, file, a.err, Collected(values, a.value, Undef)),
               stream)
  /\ UNCHANGED <<file, task, values, pending, parCb, firstChunk, out,
                 configVars, removeVars, otherVars>>

(***************************************************************************)
(* file.stream and autoContentType.                                        *)
(***************************************************************************)
\* file.stream emits a chunk.  In flowing mode it does so whether or not
\* anything listens: the chunk goes to the listener of once('data'), into
\* outStream once piped, to the transform or the upload body when those read
\* file.stream itself, and nowhere otherwise.  The listener of line 29 is
\* removed as it starts, and its classification (two awaits) ends in a later
\* step.
SrcData ==
  /\ file # NoFile
  /\ stream.state = "open"
  /\ stream.flowing
  /\ stream.pos < MaxChunks
  /\ \E k \in (IF stream.pos = 0 THEN ChunkKinds ELSE {"rest"}) :
       LET c == [n |-> stream.pos + 1, kind |-> k]
       IN CASE stream.dest = "detector" ->
                 /\ stream' = [stream EXCEPT !.pos = c.n, !.dest = "none"]
                 /\ firstChunk' = c
                 /\ ct' = "classifying"
                 /\ out' = out
            [] stream.dest = "out" ->
                 /\ stream' = [stream EXCEPT !.pos = c.n]
                 /\ out' = [out EXCEPT !.written = Append(@, c)]
                 /\ UNCHANGED <<firstChunk, ct>>
            [] OTHER ->
                 /\ stream' = [stream EXCEPT !.pos = c.n]
                 /\ UNCHANGED <<firstChunk, ct, out>>
  /\ UNCHANGED <<file, task, values, pending, parCb, configVars, handlerVars,
                 removeVars, otherVars>>

\* Whether file.stream is piped: into outStream, the transform or the body.
Piped(strm) == strm.dest \in {"out", "transform", "body"}

\* What pipe()'s listener of the destination's 'finish' leaves of the source:
\* it is unpiped and, with no destination left and no listener of 'data',
\* stops flowing.
Unpiped(strm) == [strm EXCEPT !.flowing = FALSE, !.dest = "none"]

\* file.stream emits 'end'.  When it is piped, pipe()'s listener of 'end' ends
\* the destination (outStream ends with it); file.stream stays piped and
\* flowing until the destination has finished (DestFinish).  With nothing
\* piped (the detector's listener, or nothing during the classification)
\* nothing else changes.
SrcEnd ==
  /\ file # NoFile
  /\ stream.state = "open"
  /\ stream.flowing
  /\ stream' = [stream EXCEPT !.state = "ended"]
  /\ out' = IF stream.dest = "out"
               THEN [out EXCEPT !.ended = TRUE, !.endedBy = "end"]
               ELSE out
  /\ UNCHANGED <<firstChunk, collectVars, configVars, handlerVars, removeVars,
                 otherVars>>

\* The destination file.stream was piped into, ended by pipe(), emits
\* 'finish' in a later tick, and pipe()'s listener of it unpipes file.stream.
\* Callbacks of the upload may run before that tick.
DestFinish ==
  /\ stream.state = "ended"
  /\ Piped(stream)
  /\ stream.dest = "out" => out.ended
  /\ stream' = Unpiped(stream)
  /\ UNCHANGED <<firstChunk, out, collectVars, configVars, handlerVars,
                 removeVars, otherVars>>

\* file.stream fails (the request is aborted, a limit is hit).
SrcError ==
  /\ file # NoFile
  /\ stream.state = "open"
  /\ stream' = [stream EXCEPT !.state = "errored"]
  /\ UNCHANGED <<firstChunk, out, collectVars, configVars, handlerVars,
                 removeVars, otherVars>>

\* outStream when lines 42 to 45 have run: the first chunk written,
\* file.stream piped in, and outStream open (pipe() ends nothing at once).
PipedOut(chunk) ==
  [made |-> TRUE, written |-> <<chunk>>, ended |-> FALSE, endedBy |-> "none"]

\* A pipe() that ends its destination on a later 'end' event only.
EndScheduled_OnlyOnEvent(strm, o) == FALSE

\* pipe() on a source that has emitted 'end' schedules the end of the
\* destination with process.nextTick: the case of line 45 when file.stream
\* ended during the classification.  (When 'end' comes after the pipe, SrcEnd
\* ends outStream in its own step.)
EndScheduled(strm, o) ==
  /\ o.made
  /\ ~o.ended
  /\ strm.state = "ended"
  /\ strm.dest = "out"

\* The classification is over (lines 32 to 47): outStream is made and
\* cb(null, mime, outStream) runs collect's callback and that of line 163.
ClassifyDone ==
  /\ ct = "classifying"
  /\ ct' = "done"
  /\ out' = PipedOut(firstChunk)
  /\ Deliver(Handled(storage, file, NullErr,
                     Collected(values, DetectMime(firstChunk), Obj("outStream"))),
             [stream EXCEPT !.dest = "out"])
  /\ UNCHANGED <<file, task, values, pending, parCb, firstChunk, configVars,
                 removeVars, otherVars>>

\* The tick pipe() scheduled: outStream.end() (endedBy "pipe"); file.stream is
\* unpiped when outStream has finished (DestFinish).  Until this tick cb of
\* line 47, the callback of line 163, s3.upload and send, and what answers
\* them from a microtask, see outStream open.
PipeEnds ==
  /\ EndScheduled(stream, out)
  /\ out' = [out EXCEPT !.ended = TRUE, !.endedBy = "pipe"]
  /\ UNCHANGED <<stream, firstChunk, collectVars, configVars, handlerVars,
                 removeVars, otherVars>>

(***************************************************************************)
(* The managed upload.                                                     *)
(***************************************************************************)
\* The progress notifications: without a total, or with one.
ProgressEvents ==
  {[has |-> FALSE, total |-> 0]} \cup {[has |-> TRUE, total |-> n] : n \in 0..MaxTotal}

\* Line 199: if (ev.total) currentSize = ev.total.
OnProgress(size, ev) == IF ev.has /\ ev.total # 0 THEN ev.total ELSE size

Progress ==
  /\ upload = "sent"
  /\ \E ev \in ProgressEvents :
       /\ currentSize' = OnProgress(currentSize, ev)
       /\ lastTotal' = IF ev.has THEN ev ELSE lastTotal
  /\ UNCHANGED <<resolved, cbCalls, thrown, transformCalls, transformSource,
                 uploadCalls, upload, sendReplies, configVars, collectVars,
                 streamVars, removeVars, otherVars>>

\* What the storage collaborator may pass to the callback of send.
SendOutcomes ==
  {[err |-> FailureOf("upload"), data |-> Undef]} \cup
  {[err |-> NullErr,
    data |-> [Location |-> Str("mock-location"), ETag |-> Str("mock-etag"),
              VersionId |-> v]] : v \in {Undef, Str("v1")}}

\* A callback of send that reports its own error in place of the collaborator's.
OnSend_WrapsError(size, o, r) ==
  IF r.err # NullErr
    THEN [err |-> Error(<<"upload", "failed", "wrapped">>), result |-> NoResult]
  ELSE [err |-> NullErr, result |-> Result(size, o, r.data)]

\* The callback of send (lines 202 to 219), called with (err, data).
OnSend(size, o, r) ==
  IF r.err # NullErr THEN [err |-> r.err, result |-> NoResult]
  ELSE [err |-> NullErr, result |-> Result(size, o, r.data)]

SendDone ==
  /\ upload = "sent"
  /\ upload' = "done"
  /\ \E r \in SendOutcomes :
       /\ sendReplies' = Append(sendReplies, r)
       /\ cbCalls' = Append(cbCalls, OnSend(currentSize, resolved, r))
  /\ UNCHANGED <<resolved, thrown, transformCalls, transformSource, uploadCalls,
                 currentSize, lastTotal, configVars, collectVars, streamVars,
                 removeVars, otherVars>>

(***************************************************************************)
(* _removeFile.                                                            *)
(***************************************************************************)
\* The files _removeFile is called with.
RemoveFiles == {[bucket |-> Str("test"), key |-> k] : k \in {Str("k1"), Str("k2")}}

\* A request that takes the key for the bucket.
DeleteParams_Swapped(f) == [Bucket |-> f.key, Key |-> f.bucket]

\* The request of line 224.
DeleteParams(f) == [Bucket |-> f.bucket, Key |-> f.key]

\* What the storage collaborator may pass to the callback of deleteObject.
DeleteOutcomes ==
  {[err |-> FailureOf("deleteObject"), data |-> Undef],
   [err |-> NullErr, data |-> Obj("{}")]}

\* Line 224 passes cb itself: it receives what the collaborator passes.
RemoveCallback(r) == r

RemoveFile ==
  /\ storage.thrown = "none"
  /\ Len(removed) < MaxRemoves
  /\ \E f \in RemoveFiles :
       /\ removed' = Append(removed, f)
       /\ deleteCalls' = Append(deleteCalls, DeleteParams(f))
  /\ UNCHANGED <<deleteReplies, removeCbs, configVars, collectVars, streamVars,
                 handlerVars, otherVars>>

\* The storage collaborator answers the oldest call not yet answered.
DeleteDone ==
  /\ Len(deleteReplies) < Len(deleteCalls)
  /\ \E r \in DeleteOutcomes :
       /\ deleteReplies' = Append(deleteReplies, r)
       /\ removeCbs' = Append(removeCbs, RemoveCallback(r))
  /\ UNCHANGED <<removed, deleteCalls, configVars, collectVars, streamVars,
                 handlerVars, otherVars>>

(***************************************************************************)
(* The specifications.                                                     *)
(***************************************************************************)
\* One adapter handling one file.
Next ==
  \/ Construct
  \/ HandleFile
  \/ TaskDone
  \/ ContentTypeDone
  \/ SrcData
  \/ SrcEnd
  \/ SrcError
  \/ ClassifyDone
  \/ PipeEnds
  \/ DestFinish
  \/ Progress
  \/ SendDone

Spec == Init /\ [][Next]_vars

\* The options of the adapter whose files are removed while it uploads.
RemovalOpts ==
  {[BaseOpts EXCEPT !.contentType = c] : c \in {AUTO_CONTENT_TYPE, Fn("contentType")}}

ConstructToRemove == ConstructFrom(RemovalOpts)

\* One adapter handling one file while files are removed.
NextRemoval ==
  \/ ConstructToRemove
  \/ HandleFile
  \/ TaskDone
  \/ ContentTypeDone
  \/ SrcData
  \/ SrcEnd
  \/ SrcError
  \/ ClassifyDone
  \/ PipeEnds
  \/ DestFinish
  \/ Progress
  \/ SendDone
  \/ RemoveFile
  \/ DeleteDone

SpecRemoval == Init /\ [][NextRemoval]_vars

\* The options of an adapter that detects the content-type.
DetectingOpts ==
  {[BaseOpts EXCEPT !.contentType = AUTO_CONTENT_TYPE,
                    !.throwMimeTypeConflictErrors = m,
                    !.transforms = x] :
     m \in {Undef, BoolV("true")}, x \in {Undef, Fn("factory")}}

ConstructToDetect == ConstructFrom(DetectingOpts)

\* One detecting adapter handling one file.
NextTicks ==
  \/ ConstructToDetect
  \/ HandleFile
  \/ TaskDone
  \/ SrcData
  \/ SrcEnd
  \/ SrcError
  \/ ClassifyDone
  \/ PipeEnds
  \/ DestFinish
  \/ Progress
  \/ SendDone

\* The same, the tick that pipe() schedules with process.nextTick being run:
\* Node runs every scheduled tick.
SpecTicks == Init /\ [][NextTicks]_vars /\ WF_vars(PipeEnds)

(***************************************************************************)
(* Two _handleFile calls in flight on one adapter.  What a call keeps is   *)
(* local to it: run-parallel's pending, results and cb, the opts and the   *)
(* currentSize of the callback of line 163.  The adapter is shared.        *)
(***************************************************************************)
\* The options of the adapter that handles two files at a time (the
\* content-type strategy static or a function of the user).
FilesOpts ==
  {[BaseOpts EXCEPT !.contentType = c, !.throwMimeTypeConflictErrors = m] :
     c \in {Undef, Fn("contentType")}, m \in {Undef, BoolV("true")}}

ConstructForFiles == ConstructFrom(FilesOpts)

\* A currentSize that every call shares (declared outside the callback).
ClosureSize_Shared(own, outer) == outer

\* Line 166: let currentSize is declared in the callback of line 163, so the
\* listeners of a call read and write that call's own currentSize.
ClosureSize(own, outer) == own

\* The call c after one run h of the callback of line 163.
Delivered(c, h) ==
  [c EXCEPT !.resolved = IF h.ran THEN h.opts ELSE @,
            !.cbCalls = @ \o h.cb,
            !.thrown = @ \o h.thrown,
            !.uploadCalls = @ \o h.uploads,
            !.upload = IF h.uploads # <<>> THEN "sent" ELSE @,
            !.currentSize = IF h.ran /\ h.opts # Undef THEN 0 ELSE @]

\* _handleFile(req, f, cb) once more: collect starts the nine tasks.
OtherHandleFile ==
  /\ storage.thrown = "none"
  /\ other.file = NoFile
  /\ \E f \in Files :
       LET sync == {i \in Attrs : Getter(storage, i).kind = "static"}
       IN other' =
            [other EXCEPT
               !.file = f,
               !.task = [i \in Attrs |-> IF i \in sync THEN "done" ELSE "pending"],
               !.values = [i \in Attrs |->
                             IF i \in sync THEN Getter(storage, i).value ELSE Undef],
               !.pending = NumAttrs - Cardinality(sync),
               !.parCb = TRUE]
  /\ UNCHANGED <<configVars, collectVars, streamVars, handlerVars, removeVars>>

\* Line 65 for the call c, the nine values being vals.
OtherGetContentType(c, vals) ==
  LET s == storage.getContentType
      h == Handled(storage, c.file, NullErr, Collected(vals, s.value, Undef))
  IN IF s.kind = "static"
       THEN Delivered([c EXCEPT !.ct = "done", !.parCb = (h.thrown # <<>>)], h)
       ELSE [c EXCEPT !.ct = "pending", !.parCb = FALSE]

\* A task of the other call answers.
OtherTaskDone ==
  /\ \E i \in Attrs :
       /\ other.task[i] = "pending"
       /\ \E a \in Answers(Getter(storage, i), AttrNames[i]) :
            LET failed == a.err # NullErr
                left == other.pending - 1
                vals == [other.values EXCEPT ![i] = a.value]
                c == [other EXCEPT !.task[i] = "done", !.values = vals,
                                   !.pending = left]
            IN other' =
                 IF ParallelEnds(left, failed, other.parCb)
                   THEN IF failed
                          THEN Delivered([c EXCEPT !.parCb = FALSE],
                                         Handled(storage, c.file, a.err, Undef))
                          ELSE OtherGetContentType(c, vals)
                   ELSE c
  /\ UNCHANGED <<configVars, collectVars, streamVars, handlerVars, removeVars>>

\* The user's content-type function answers the other call.
OtherContentTypeDone ==
  /\ other.ct = "pending"
  /\ \E a \in Answers(storage.getContentType, "contentType") :
       other' = Delivered([other EXCEPT !.ct = "done"],
                          Handled(storage, other.file, a.err,
                                  Collected(other.values, a.value, Undef)))
  /\ UNCHANGED <<configVars, collectVars, streamVars, handlerVars, removeVars>>

\* The other call's upload notifies progress.
OtherProgress ==
  /\ other.upload = "sent"
  /\ \E ev \in ProgressEvents :
       other' = [other EXCEPT !.currentSize =
                   OnProgress(ClosureSize(other.currentSize, currentSize), ev)]
  /\ UNCHANGED <<configVars, collectVars, streamVars, handlerVars, removeVars>>

\* The other call's upload completes.
OtherSendDone ==
  /\ other.upload = "sent"
  /\ \E r \in SendOutcomes :
       other' = [other EXCEPT
                   !.upload = "done",
                   !.sendReplies = Append(@, r),
                   !.cbCalls =
                     Append(@, OnSend(ClosureSize(other.currentSize, currentSize),
                                      other.resolved, r))]
  /\ UNCHANGED <<configVars, collectVars, streamVars, handlerVars, removeVars>>

\* One adapter handling two files at a time while files are removed.  Each
\* file has a stream of its own, whose events Spec follows; here the steps are
\* those of the strategies, the uploads and the removals.
NextFiles ==
  \/ ConstructForFiles
  \/ HandleFile
  \/ TaskDone
  \/ ContentTypeDone
  \/ Progress
  \/ SendDone
  \/ OtherHandleFile
  \/ OtherTaskDone
  \/ OtherContentTypeDone
  \/ OtherProgress
  \/ OtherSendDone
  \/ RemoveFile
  \/ DeleteDone

SpecFiles == Init /\ [][NextFiles]_vars

(***************************************************************************)
(* The claims.                                                             *)
(***************************************************************************)
\* The callback of line 163 ran with an attribute set.
Resolved == resolved # Undef

\* An invocation of cb carries an error alone or a result alone.
WellFormed(c) == (c.err = NullErr) # (c.result = NoResult)

\* C1: _handleFile's cb is invoked at most once, with an error or with a
\* result and never with both, whatever the order in which strategies answer,
\* the stream emits, progress is notified and the upload completes.
C1_CallbackAtMostOnce ==
  /\ Len(cbCalls) <= 1
  /\ \A k \in 1..Len(cbCalls) : WellFormed(cbCalls[k])

\* C1 witness: cb was invoked with the error of randomBytes, and the function
\* given for another attribute failed as well, before or after it.
C1_Witness ==
  /\ Len(cbCalls) = 1
  /\ cbCalls[1].err = FailureOf("randomBytes")
  /\ pending = 0
  /\ \E i \in Attrs :
       /\ Getter(storage, i).kind = "user"
       /\ values[i] = Undef

\* The chunks file.stream has emitted, by number.
Emitted == [k \in 1..stream.pos |-> k]

\* The chunks written into outStream, by number.
Replayed == [k \in 1..Len(out.written) |-> out.written[k].n]

\* C2: under autoContentType the chunks readable from the replacement stream
\* are the chunks the original stream emitted, in order, none lost or repeated.
C2_ReplayIsExact == out.made => Replayed = Emitted

\* Mismatch enforcement is on.
Enforcing == Truthy(storage.throwMimeTypeConflictErrors)

OctetStream == Str("application/octet-stream")

\* The resolved content-type is not the generic one and differs from the
\* declared one.
Conflicting ==
  /\ resolved.contentType # OctetStream
  /\ resolved.contentType # Str(file.mimetype)

\* cb was invoked once, with a MIMETYPE_MISMATCH error that names the resolved
\* type, the declared type and the original filename, and with no result.
RejectedForMismatch ==
  /\ Len(cbCalls) = 1
  /\ cbCalls[1].result = NoResult
  /\ cbCalls[1].err.t = "Error"
  /\ LET m == cbCalls[1].err.message
     IN /\ Len(m) = 7
        /\ m[1] = "MIMETYPE_MISMATCH: Actual content-type \""
        /\ m[2] = resolved.contentType.v
        /\ m[4] = file.mimetype
        /\ m[6] = file.originalname

\* C3: with enforcement on and a resolved content-type that is not
\* application/octet-stream and differs from file.mimetype, _handleFile fails
\* with the MIMETYPE_MISMATCH error and s3.upload is never called.
C3_MismatchRejected ==
  (Resolved /\ Enforcing /\ Conflicting) =>
    (RejectedForMismatch /\ uploadCalls = <<>>)

\* C3 where no exception escaped the callback of line 163 (the transform of
\* line 168 was resolved): the rejection does happen.
C3_RejectedUnlessThrown ==
  (Resolved /\ Enforcing /\ Conflicting /\ thrown = <<>>) =>
    (RejectedForMismatch /\ uploadCalls = <<>>)

\* transforms is an object of factories with none for the file's field.
NoFactoryForField ==
  /\ Truthy(storage.transforms)
  /\ storage.transforms.t = "object"
  /\ FieldFactory(storage.transforms, file.fieldname) = Undef

\* C4: a file whose field has no entry in a per-field transforms object fails
\* through cb, invoked once with an error, and nothing is uploaded.
C4_MissingTransformReported ==
  (Resolved /\ NoFactoryForField) =>
    /\ Len(cbCalls) = 1
    /\ cbCalls[1].err # NullErr
    /\ uploadCalls = <<>>

\* C5: once every strategy and the storage collaborator have answered and the
\* stream is over (no step is left to take), a call under autoContentType has
\* had its cb invoked; so too for a stream that ends or fails before any chunk.
C5_AutoCallTerminates ==
  (file # NoFile /\ storage.getContentType.kind = "auto" /\ ~ENABLED Next) =>
    Len(cbCalls) = 1

\* C6: an option given a value of an unsupported type makes the constructor
\* throw a TypeError.
C6_WrongTypeThrows ==
  (storage # NotBuilt /\ WrongTyped(options) # {}) => storage.thrown = "TypeError"

\* C7: with enforcement on, a file resolved to application/octet-stream is
\* not rejected for mismatch: the upload is dispatched, and when the storage
\* collaborator succeeds cb receives a result and no error.
C7_OctetStreamUploaded ==
  (Resolved /\ Enforcing /\ resolved.contentType = OctetStream) =>
    /\ Len(uploadCalls) = 1
    /\ \A k \in 1..Len(cbCalls) :
         \/ cbCalls[k].err = NullErr
         \/ cbCalls[k].err.message[1] # "MIMETYPE_MISMATCH: Actual content-type \""
    /\ (sendReplies # <<>> /\ sendReplies[1].err = NullErr) =>
         /\ Len(cbCalls) = 1
         /\ cbCalls[1].err = NullErr
         /\ cbCalls[1].result # NoResult

\* C7 where no exception escaped the callback of line 163.
C7_UploadedUnlessThrown ==
  (Resolved /\ Enforcing /\ resolved.contentType = OctetStream /\ thrown = <<>>) =>
    /\ Len(uploadCalls) = 1
    /\ \A k \in 1..Len(cbCalls) :
         \/ cbCalls[k].err = NullErr
         \/ cbCalls[k].err.message[1] # "MIMETYPE_MISMATCH: Actual content-type \""
    /\ (sendReplies # <<>> /\ sendReplies[1].err = NullErr) =>
         /\ Len(cbCalls) = 1
         /\ cbCalls[1].err = NullErr
         /\ cbCalls[1].result # NoResult

\* The upload completed with success.
Succeeded == sendReplies # <<>> /\ sendReplies[1].err = NullErr

\* C8: on success the result cb receives has bucket, key, acl, contentType,
\* contentDisposition, storageClass, serverSideEncryption and metadata equal
\* to what the request of the same file carries (a request without
\* ContentDisposition going with an empty contentDisposition), and location,
\* etag and versionId equal to what the completion returned.
C8_ResultMatchesRequest ==
  Succeeded =>
    /\ Len(cbCalls) = 1 /\ Len(uploadCalls) = 1
    /\ LET res == cbCalls[1].result
           req == uploadCalls[1]
           data == sendReplies[1].data
       IN /\ res # NoResult
          /\ res.bucket = req.Bucket
          /\ res.key = req.Key
          /\ res.acl = req.ACL
          /\ res.contentType = req.ContentType
          /\ IF "ContentDisposition" \in DOMAIN req
               THEN res.contentDisposition = req.ContentDisposition
               ELSE ~Truthy(res.contentDisposition)
          /\ res.storageClass = req.StorageClass
          /\ res.serverSideEncryption = req.ServerSideEncryption
          /\ res.metadata = req.Metadata
          /\ res.location = data.Location
          /\ res.etag = data.ETag
          /\ res.versionId = data.VersionId

\* C8 witness: a success whose request carried a ContentDisposition and whose
\* completion returned a version.
C8_Witness ==
  /\ Succeeded
  /\ "ContentDisposition" \in DOMAIN uploadCalls[1]
  /\ sendReplies[1].data.VersionId = Str("v1")
  /\ cbCalls[1].result.versionId = Str("v1")

\* Each _removeFile call made one deleteObject call, with the file's bucket
\* and key, and each answer of the collaborator reached cb as it was.
RemovalDelegated ==
  /\ Len(deleteCalls) = Len(removed)
  /\ \A k \in 1..Len(removed) :
       deleteCalls[k] = [Bucket |-> removed[k].bucket, Key |-> removed[k].key]
  /\ Len(removeCbs) = Len(deleteReplies)
  /\ \A k \in 1..Len(deleteReplies) : removeCbs[k] = deleteReplies[k]

\* _removeFile can be called whatever the state of the upload.
RemovalUnconditional ==
  (storage.thrown = "none" /\ Len(removed) < MaxRemoves) => ENABLED RemoveFile

\* C9: _removeFile issues one deleteObject call with the file's bucket and
\* key, the collaborator's outcome reaches cb unchanged, and a removal step
\* neither depends on nor changes the state of the upload.
C9_RemoveDelegates ==
  /\ [](RemovalDelegated /\ RemovalUnconditional)
  /\ [][removeVars' # removeVars =>
          UNCHANGED <<configVars, collectVars, streamVars, handlerVars>>]_vars

\* C9 witness: a removal was answered with an error while the upload was under
\* way.
C9_Witness ==
  /\ Len(removeCbs) = 1
  /\ removeCbs[1].err = FailureOf("deleteObject")
  /\ removed[1].key = Str("k2")
  /\ upload = "sent"

\* C10: autoContentType answers the type of the binary signature when there is
\* one, even for a valid SVG document; otherwise image/svg+xml for a valid SVG
\* document; otherwise application/octet-stream.
C10_DetectionOrder ==
  (Resolved /\ storage.getContentType.kind = "auto") =>
    LET signature == fileTypeFromBuffer(firstChunk)
    IN /\ signature # Undef => resolved.contentType = signature
       /\ (signature = Undef /\ isSvg(firstChunk)) =>
            resolved.contentType = Str("image/svg+xml")
       /\ (signature = Undef /\ ~isSvg(firstChunk)) =>
            resolved.contentType = OctetStream

\* C10 witness: the first chunk carries a signature and is a valid SVG
\* document, and the signature's type was resolved.
C10_Witness ==
  /\ Resolved
  /\ firstChunk.kind = "xml+svg"
  /\ isSvg(firstChunk)
  /\ resolved.contentType = Str("application/xml")

\* What an attribute resolves to when its option is omitted.
Defaults ==
  [acl |-> Str("private"),
   contentType |-> Str("application/octet-stream"),
   storageClass |-> Str("STANDARD"),
   metadata |-> NullV,
   cacheControl |-> NullV,
   contentDisposition |-> NullV,
   serverSideEncryption |-> NullV,
   sseKmsKeyId |-> NullV]

\* The place of an attribute among the nine tasks (0: the content-type).
TaskOf(name) ==
  IF name \in AttrNameSet THEN CHOOSE i \in Attrs : AttrNames[i] = name ELSE 0

\* C11: an attribute whose option is omitted resolves to its default for every
\* file ('private', 'application/octet-stream', 'STANDARD', and null for
\* metadata, cache-control, content-disposition, encryption mode and key id),
\* and construction without a bucket fails.
C11_OmittedResolveToDefaults ==
  /\ (storage # NotBuilt /\ options.bucket = Undef) => storage.thrown # "none"
  /\ \A n \in DOMAIN Defaults :
       options[n] = Undef =>
         /\ (file # NoFile /\ TaskOf(n) # 0) => values[TaskOf(n)] = Defaults[n]
         /\ Resolved => resolved[n] = Defaults[n]

\* C11 witness: a file handled by an adapter built with the bucket alone has
\* every attribute but the bucket and the key at its default.
C11_Witness ==
  /\ Resolved
  /\ options = BaseOpts
  /\ file.mimetype = "application/pdf"
  /\ resolved.acl = Str("private")
  /\ resolved.contentType = Str("application/octet-stream")
  /\ resolved.storageClass = Str("STANDARD")
  /\ resolved.sseKmsKeyId = NullV

\* The tasks that answered with an error (no strategy answers undefined
\* without one).
FailedTasks == {i \in Attrs : task[i] = "done" /\ values[i] = Undef}

\* The error task i reports when it fails.
ErrorOf(i) ==
  IF Getter(storage, i).kind = "defaultKey" THEN FailureOf("randomBytes")
  ELSE FailureOf(AttrNames[i])

\* After a failure cb has the error of a failed task and no result, no
\* attribute set reached the callback of line 163 and nothing was uploaded.
AbortedOnFailure ==
  FailedTasks # {} =>
    /\ Len(cbCalls) = 1
    /\ cbCalls[1].result = NoResult
    /\ cbCalls[1].err \in {ErrorOf(i) : i \in FailedTasks}
    /\ ~Resolved
    /\ transformCalls = 0
    /\ uploadCalls = <<>>
    /\ upload = "none"

\* The first task to fail gives cb its error; a task that answers after a
\* failure, with a value or an error, changes nothing of what cb received.
FirstErrorWins ==
  /\ \A i \in Attrs :
       (i \notin FailedTasks /\ i \in FailedTasks' /\ FailedTasks = {}) =>
         cbCalls' = <<[err |-> ErrorOf(i), result |-> NoResult]>>
  /\ FailedTasks # {} => UNCHANGED <<cbCalls, resolved, uploadCalls>>

\* C12: when one of the nine strategies fails, cb receives the first error
\* reported, answers that arrive later from the other strategies are ignored,
\* no partial attribute set is used and s3.upload is never called.
C12_FirstErrorWins == []AbortedOnFailure /\ [][FirstErrorWins]_vars

\* C12 witness: a user's strategy failed first and randomBytes failed after it;
\* cb has the error of the user's strategy.
C12_Witness ==
  /\ Cardinality(FailedTasks) = 2
  /\ Len(cbCalls) = 1
  /\ cbCalls[1].err # FailureOf("randomBytes")
  /\ 2 \in FailedTasks

\* The content-type strategy has been invoked for the file.
ContentTypeInvoked == ct # "idle"

\* Each of the nine strategies has answered.
NineAnswered == \A i \in Attrs : task[i] = "done"

\* The attribute set that reaches the callback of line 163 joins the nine
\* values with the content-type, and the request is assembled from it.
JoinedBeforeUpload ==
  /\ Resolved =>
       /\ NineAnswered
       /\ ct = "done"
       /\ \A n \in AttrNameSet : resolved[n] = values[TaskOf(n)]
  /\ uploadCalls # <<>> =>
       /\ Resolved
       /\ uploadCalls[1].ContentType = resolved.contentType

\* C13: the content-type strategy is invoked for a file without waiting for
\* the nine other strategies to complete, and its result is joined with theirs
\* before the upload request is assembled.
C13_ContentTypeIndependent ==
  /\ file # NoFile => ContentTypeInvoked
  /\ JoinedBeforeUpload

\* C13 as the code has it: the content-type strategy is invoked when, and only
\* when, all nine other strategies have answered without an error; its result
\* is joined with theirs before the upload request is assembled.
C13_ContentTypeAfterNine ==
  /\ ContentTypeInvoked <=> (file # NoFile /\ NineAnswered /\ FailedTasks = {})
  /\ JoinedBeforeUpload

\* C13 witness: a user's content-type function has been invoked and has not
\* answered yet; the nine strategies, a user's function among them, have.
C13_Witness ==
  /\ ct = "pending"
  /\ NineAnswered
  /\ \E i \in Attrs : Getter(storage, i).kind = "user"

\* C14: the size of the result is the total of the last progress notification
\* that reported one before the upload completed, whatever the totals were
\* (0 and decreasing totals included), and 0 when none reported a total.
C14_LastTotalWins ==
  Succeeded =>
    cbCalls[1].result.size = (IF lastTotal.has THEN lastTotal.total ELSE 0)

\* The state of the per-file operation.
Phase ==
  CASE file = NoFile -> "Idle"
    [] file # NoFile /\ cbCalls # <<>> ->
         IF cbCalls[1].err = NullErr THEN "Completed" ELSE "Failed"
    [] file # NoFile /\ cbCalls = <<>> /\ upload # "none" -> "Uploading"
    [] file # NoFile /\ cbCalls = <<>> /\ upload = "none" /\ Resolved -> "StreamReady"
    [] OTHER -> "ResolvingAttributes"

\* The place of a state in the order; the two terminal states come last.
Rank(phase) ==
  CASE phase = "Idle" -> 0
    [] phase = "ResolvingAttributes" -> 1
    [] phase = "StreamReady" -> 2
    [] phase = "Uploading" -> 3
    [] OTHER -> 4

\* A step keeps the state or moves it forward in the order; it leaves Idle for
\* ResolvingAttributes only, never leaves Completed or Failed, and reaches
\* Completed from Uploading only.
PhaseStep ==
  /\ Rank(Phase') >= Rank(Phase)
  /\ Phase = "Idle" => Phase' \in {"Idle", "ResolvingAttributes"}
  /\ Phase \in {"Completed", "Failed"} => Phase' = Phase
  /\ (Phase' = "Completed" /\ Phase # "Completed") => Phase = "Uploading"

\* The upload is dispatched once, after the nine attributes and the
\* content-type resolved and the test of the types passed.
DispatchedWhenReady ==
  upload # "none" =>
    /\ Len(uploadCalls) = 1
    /\ Resolved
    /\ NineAnswered
    /\ FailedTasks = {}
    /\ ct = "done"
    /\ ~(Enforcing /\ Conflicting)

\* C15: per file the operation goes through Idle, ResolvingAttributes,
\* StreamReady, Uploading, Completed in that order, Failed being reached from
\* ResolvingAttributes, StreamReady or Uploading; no state is revisited,
\* Completed and Failed are terminal, and the upload is dispatched only after
\* all attributes resolved and the mismatch check passed.
C15_PhaseOrder == []DispatchedWhenReady /\ [][PhaseStep]_vars

\* C15 witness: Failed was reached from Uploading (the upload was dispatched and
\* the storage collaborator reported an error).
C15_Witness ==
  /\ Phase = "Failed"
  /\ upload = "done"
  /\ Len(uploadCalls) = 1

\* The content-type strategy returned a replacement stream.
Replaced == Resolved /\ Truthy(resolved.replacementStream)

\* The stream the rest of the pipeline is to read: the replacement stream when
\* there is one, the original otherwise.
ExpectedSource ==
  IF Replaced THEN resolved.replacementStream ELSE Obj("file.stream")

\* C16: the transform, when one is configured, is fed by the replacement stream
\* if the content-type strategy returned one and by file.stream otherwise, and
\* its output is the upload body; with no transform that source is the body
\* itself.  With a replacement stream file.stream is neither the body nor the
\* transform's input.
C16_EffectiveSource ==
  /\ transformCalls > 0 => transformSource = ExpectedSource
  /\ uploadCalls # <<>> =>
       IF Truthy(storage.transforms)
         THEN /\ uploadCalls[1].Body = Obj("transform")
              /\ transformCalls = 1
         ELSE /\ uploadCalls[1].Body = ExpectedSource
              /\ transformCalls = 0
  /\ Replaced =>
       /\ transformSource # Obj("file.stream")
       /\ \A k \in 1..Len(uploadCalls) : uploadCalls[k].Body # Obj("file.stream")
       /\ stream.dest \notin {"body", "transform"}

\* C16 witness: under autoContentType with a transform, the upload body is the
\* transform and the transform reads the replacement stream.
C16_Witness ==
  /\ Replaced
  /\ Len(uploadCalls) = 1
  /\ uploadCalls[1].Body = Obj("transform")
  /\ transformSource = Obj("outStream")
  /\ stream.dest = "out"

\* The upload completed with an error.
SendFailed == sendReplies # <<>> /\ sendReplies[1].err # NullErr

\* C17: when the storage collaborator's completion reports an error, cb
\* receives that very error and no result, and nothing is retried: s3.upload is
\* called, and sent, at most once per _handleFile call.
C17_UploadErrorVerbatim ==
  /\ Len(uploadCalls) <= 1
  /\ Len(sendReplies) <= Len(uploadCalls)
  /\ SendFailed =>
       /\ cbCalls = <<[err |-> sendReplies[1].err, result |-> NoResult]>>
       /\ Len(uploadCalls) = 1
       /\ upload = "done"

\* C17 witness: after progress was notified the upload failed, and cb has the
\* collaborator's error.
C17_Witness ==
  /\ SendFailed
  /\ currentSize > 0
  /\ cbCalls[1].err = FailureOf("upload")
  /\ Len(uploadCalls) = 1

\* The state of the first call.
callVars == <<collectVars, streamVars, handlerVars>>

\* The other call's upload completed with success.
OtherSucceeded == other.sendReplies # <<>> /\ other.sendReplies[1].err = NullErr

\* The result of each call is made of that call's attributes, of the size its
\* own progress notifications left and of its own completion.
OwnResults ==
  /\ Succeeded =>
       cbCalls = <<[err |-> NullErr,
                    result |-> Result(currentSize, resolved, sendReplies[1].data)]>>
  /\ OtherSucceeded =>
       other.cbCalls =
         <<[err |-> NullErr,
            result |-> Result(other.currentSize, other.resolved,
                              other.sendReplies[1].data)]>>
  /\ Resolved => \A n \in AttrNameSet : resolved[n] = values[TaskOf(n)]
  /\ other.resolved # Undef =>
       \A n \in AttrNameSet : other.resolved[n] = other.values[TaskOf(n)]

\* A step of one call changes nothing of the other, and no step after the
\* construction changes the adapter.
OwnSteps ==
  /\ storage # NotBuilt => UNCHANGED configVars
  /\ other' # other => UNCHANGED callVars
  /\ callVars' # callVars => other' = other
  /\ removeVars' # removeVars => (other' = other /\ UNCHANGED callVars)

\* C18: with two files in flight on one adapter, under every interleaving the
\* result of each depends on its own attributes, progress notifications and
\* storage outcome only (progress of one never changes the size of the other),
\* and neither _handleFile nor _removeFile changes the adapter's strategies,
\* flags or client.
C18_FilesIndependent == []OwnResults /\ [][OwnSteps]_vars

\* C18 witness: both uploads succeeded, with different sizes, different
\* versions and, a removal having been made meanwhile, the adapter as built.
C18_Witness ==
  /\ Succeeded
  /\ OtherSucceeded
  /\ cbCalls[1].result.size = MaxTotal
  /\ other.cbCalls[1].result.size = 1
  /\ cbCalls[1].result.versionId # other.cbCalls[1].result.versionId
  /\ Len(removeCbs) = 1
  /\ storage = S3Storage(options)

\* A value is empty: null, undefined or the empty string.
Empty(x) == x \in {NullV, Undef, Str("")}

\* C19: the request passed to s3.upload carries Bucket, Key, ACL, CacheControl,
\* ContentType, Metadata, StorageClass, ServerSideEncryption and SSEKMSKeyId
\* equal to the resolved attributes, and has a ContentDisposition field, equal
\* to the resolved content-disposition, exactly when that one is not empty.
C19_RequestCarriesAttributes ==
  uploadCalls # <<>> =>
    LET req == uploadCalls[1]
    IN /\ Resolved
       /\ req.Bucket = values[1] /\ req.Bucket = resolved.bucket
       /\ req.Key = values[2] /\ req.Key = resolved.key
       /\ req.ACL = values[3] /\ req.ACL = resolved.acl
       /\ req.Metadata = values[4] /\ req.Metadata = resolved.metadata
       /\ req.CacheControl = values[5] /\ req.CacheControl = resolved.cacheControl
       /\ req.StorageClass = values[7] /\ req.StorageClass = resolved.storageClass
       /\ req.ServerSideEncryption = values[8]
       /\ req.ServerSideEncryption = resolved.serverSideEncryption
       /\ req.SSEKMSKeyId = values[9] /\ req.SSEKMSKeyId = resolved.sseKmsKeyId
       /\ req.ContentType = resolved.contentType
       /\ resolved.contentDisposition = values[6]
       /\ ("ContentDisposition" \in DOMAIN req) <=> ~Empty(values[6])
       /\ ("ContentDisposition" \in DOMAIN req) =>
            req.ContentDisposition = values[6]

\* C19 witness: the content-disposition resolved to the empty string and the
\* request was passed without the field.
C19_Witness ==
  /\ Len(uploadCalls) = 1
  /\ values[6] = Str("")
  /\ "ContentDisposition" \notin DOMAIN uploadCalls[1]
  /\ uploadCalls[1].StorageClass = Str("STANDARD")

\* The original stream has ended and the replacement stream exists.
SourceOver == out.made /\ stream.state = "ended"

\* The replacement stream ends with the original or, when the original ended
\* before the pipe, has its end scheduled; it ends for no other reason; and the
\* upload body is the replacement stream or the transform that reads it.
EndsWithSource ==
  /\ (SourceOver /\ ~out.ended) => ENABLED PipeEnds
  /\ out.ended => SourceOver
  /\ (out.made /\ uploadCalls # <<>>) =>
       \/ uploadCalls[1].Body = Obj("outStream")
       \/ /\ uploadCalls[1].Body = Obj("transform")
          /\ transformSource = Obj("outStream")

\* C20: under autoContentType the replacement stream ends whenever the
\* original stream has ended, also when the original emitted 'end' while the
\* first chunk was being classified, before it was piped into the replacement;
\* the upload body, which reads the replacement, is not left open for ever.
C20_ReplacementEnds == []EndsWithSource /\ (SourceOver ~> out.ended)

\* C20 witness: the original stream ended during the classification, the pipe
\* ended the replacement stream, and the upload reading it was dispatched.
C20_Witness ==
  /\ out.made
  /\ out.ended
  /\ out.endedBy = "pipe"
  /\ stream.state = "ended"
  /\ upload = "sent"
  /\ uploadCalls[1].Body = Obj("outStream")

\* A transform is configured for the file: transforms is a factory, or an
\* object that holds a factory under the file's field name.
FactoryConfigured ==
  /\ Truthy(storage.transforms)
  /\ \/ storage.transforms.t = "function"
     \/ FieldFactory(storage.transforms, file.fieldname).t = "function"

\* C21: with a transform configured, its factory is called once per
\* _handleFile call whose attributes resolved and never when resolution failed
\* (or has not ended); the call and the piping of the source come before the
\* test of the types, so a file rejected for mismatch has one transform
\* instance with its source piped into it, and no upload.
C21_TransformBeforeMismatch ==
  /\ transformCalls <= 1
  /\ ~Resolved => (transformCalls = 0 /\ transformSource = Undef)
  /\ (Resolved /\ FactoryConfigured) =>
       /\ transformCalls = 1
       /\ transformSource = ExpectedSource
       /\ (transformSource = Obj("file.stream") /\ stream.state # "ended") =>
            (stream.flowing /\ stream.dest = "transform")
  /\ (Resolved /\ FactoryConfigured /\ Enforcing /\ Conflicting) =>
       /\ RejectedForMismatch
       /\ uploadCalls = <<>>
       /\ upload = "none"

\* C21 witness: a file rejected for mismatch whose stream flows into the one
\* transform instance made for it, nothing having been uploaded.
C21_Witness ==
  /\ Resolved
  /\ FactoryConfigured
  /\ RejectedForMismatch
  /\ transformCalls = 1
  /\ transformSource = Obj("file.stream")
  /\ stream.dest = "transform"
  /\ uploadCalls = <<>>

=============================================================================
